---- MODULE Spec2Model ----
(***************************************************************************)
(* The spatial decision-support scripts of GIDS-Medium: tutor1.py ..       *)
(* tutor5.py and export_dss_geojson.py.  Each script is a straight-line    *)
(* batch run over one zone table; the later scripts repeat the stages of   *)
(* the earlier ones and add one.  One action models one stage.             *)
(*                                                                         *)
(* Numbers.  A float is a record [k, n, d]: k = "num" is the rational      *)
(* n/d (d > 0, reduced), k = "nan" is IEEE NaN, k = "inf" is +infinity.    *)
(* A value that went through .round(6) is kept as n millionths, d = SCALE. *)
(* Sums and quotients are exact rationals; the last-bit rounding error of  *)
(* a double is not followed.  For the inputs enumerated here the rounded   *)
(* scores and the threshold tests come out the same either way.            *)
(*                                                                         *)
(* Geometry (the geopandas side) is a row of N square zones 1..N, each     *)
(* CellSize metres wide, with cell 0 lying outside every zone.  Activity   *)
(* points sit at cell centres, so a point in cell c is within zone c       *)
(* (c >= 1) and its distance to the centroid of zone z is |c - z| cells.   *)
(***************************************************************************)
EXTENDS Integers, Sequences, FiniteSets, TLC

VARIABLES script, cfg, nZones, acts, pc, err,
          activity_count, activity_score, exposure_score,
          access_raw, access_score, underserved_score,
          env_pressure, social_pressure, ops_pressure, ssi_score,
          candidates, final, dominant_pressure,
          is_recommended, recommend_rank, out_file

vars == << script, cfg, nZones, acts, pc, err,
           activity_count, activity_score, exposure_score,
           access_raw, access_score, underserved_score,
           env_pressure, social_pressure, ops_pressure, ssi_score,
           candidates, final, dominant_pressure,
           is_recommended, recommend_rank, out_file >>

----------------------------------------------------------------------------
(* Bounds of the model. *)

\* most zones in zones.geojson
MaxN == 3
\* most activity points in one cell
MaxPerCell == 2

----------------------------------------------------------------------------
(* Program constants. *)

\* .round(6): values are kept in millionths
SCALE == 1000000
\* K = 5
DEFAULT_K == 5
\* alpha = 2000  (metres)
DEFAULT_ALPHA == 2000
\* SSI_THRESHOLD = 0.60, in millionths
DEFAULT_SSI_THRESHOLD == 600000
\* CRITICAL_PRESSURE = 0.70, in millionths
DEFAULT_CRITICAL_PRESSURE == 700000
\* MAX_ZONES = 5
DEFAULT_MAX_ZONES == 5
\* the weights 0.4, 0.4, 0.2 are written in tenths
WeightDen == 10
\* w_env, w_soc, w_ops = 0.4, 0.4, 0.2
DEFAULT_WEIGHTS == << 4, 4, 2 >>

\* width of a zone, in metres
CellSize == DEFAULT_ALPHA

Scripts == { "tutor1", "tutor2", "tutor3", "tutor4", "tutor5", "export" }

----------------------------------------------------------------------------
(* Floats. *)

Num(n, d) == [k |-> "num", n |-> n, d |-> d]
NaN == [k |-> "nan", n |-> 0, d |-> 1]
Inf == [k |-> "inf", n |-> 0, d |-> 1]
IsNum(x) == x.k = "num"
IsNaN(x) == x.k = "nan"
IsInf(x) == x.k = "inf"

Abs(i) == IF i < 0 THEN -i ELSE i

RECURSIVE GCD(_, _)
GCD(a, b) == IF b = 0 THEN a ELSE GCD(b, a % b)

\* the rational n/d in lowest terms, d # 0
Rat(n, d) ==
    LET g == GCD(Abs(n), Abs(d))
        s == IF d < 0 THEN -1 ELSE 1
    IN  Num(s * (n \div g), s * (d \div g))

\* x + y of two floats (no -inf arises in these scripts)
FAdd(x, y) ==
    IF IsNaN(x) \/ IsNaN(y) THEN NaN
    ELSE IF IsInf(x) \/ IsInf(y) THEN Inf
    ELSE Rat(x.n * y.d + y.n * x.d, x.d * y.d)

\* x < y, x = y as IEEE comparisons: false when either side is NaN
FLt(x, y) ==
    /\ ~IsNaN(x) /\ ~IsNaN(y)
    /\ ~IsInf(x)
    /\ (IsInf(y) \/ x.n * y.d < y.n * x.d)
FEq(x, y) ==
    /\ ~IsNaN(x) /\ ~IsNaN(y)
    /\ x.k = y.k
    /\ (IsNum(x) => x.n * y.d = y.n * x.d)

\* n/d rounded to the nearest integer, halves to even (numpy rint), d > 0
RoundDiv(n, d) ==
    LET q == n \div d
        r == n - q * d
    IN  IF 2 * r < d THEN q
        ELSE IF 2 * r > d THEN q + 1
        ELSE IF q % 2 = 0 THEN q ELSE q + 1

\* a float seen through .round(6): millionths over SCALE; NaN stays NaN
Round6(x) ==
    IF IsNum(x) THEN Num(RoundDiv(x.n * SCALE, x.d), SCALE) ELSE x

\* comparisons of two rounded values, or of one with a threshold in millionths
RGe(x, t) == IsNum(x) /\ x.n >= t
RGt(x, y) == IsNum(x) /\ IsNum(y) /\ x.n > y.n

Zones == 1 .. nZones

----------------------------------------------------------------------------
(* minmax(series): src/export_dss_geojson.py:4-9.  pandas min()/max() skip *)
(* NaN; an empty or all-NaN series has min = max = NaN and NaN == NaN is   *)
(* false, so the division is reached.                                      *)

NonNaN(series) == { i \in DOMAIN series : ~IsNaN(series[i]) }

SeriesMin(series) ==
    IF NonNaN(series) = {} THEN NaN
    ELSE series[CHOOSE i \in NonNaN(series) :
                    \A j \in NonNaN(series) : ~FLt(series[j], series[i])]

SeriesMax(series) ==
    IF NonNaN(series) = {} THEN NaN
    ELSE series[CHOOSE i \in NonNaN(series) :
                    \A j \in NonNaN(series) : ~FLt(series[i], series[j])]

\* (x - mn) / (mx - mn) as numpy divides: mn # mx, neither is NaN here
ScaleTo(x, mn, mx) ==
    IF IsNaN(x) \/ IsNaN(mn) \/ IsNaN(mx) THEN NaN
    ELSE IF IsInf(mx) THEN (IF IsInf(x) THEN NaN ELSE Num(0, 1))
    ELSE Rat(x.n * mn.d * mx.d - mn.n * x.d * mx.d,
             x.d * (mx.n * mn.d - mn.n * mx.d))

\* tutor1.py:17-21 has no guard: 0/0 is NaN, x/0 is inf
UnguardedMinmax(series) ==
    LET mn == SeriesMin(series)
        mx == SeriesMax(series)
    IN  [i \in DOMAIN series |->
            IF FEq(mx, mn)
            THEN (IF FEq(series[i], mn) THEN NaN ELSE Inf)
            ELSE ScaleTo(series[i], mn, mx)]

\* minmax without the division by the range
MinmaxShiftOnly(series) ==
    LET mn == SeriesMin(series)
    IN  [i \in DOMAIN series |->
            IF IsNum(series[i]) /\ IsNum(mn)
            THEN Rat(series[i].n * mn.d - mn.n * series[i].d,
                     series[i].d * mn.d)
            ELSE series[i]]

minmax(series) ==
    LET mn == SeriesMin(series)
        mx == SeriesMax(series)
    IN  IF FEq(mx, mn)
        THEN [i \in DOMAIN series |-> Num(0, 1)]
        ELSE [i \in DOMAIN series |-> ScaleTo(series[i], mn, mx)]

RoundAll(series) == [i \in DOMAIN series |-> Round6(series[i])]

----------------------------------------------------------------------------
(* Configuration.  The scripts set it by assignment; the values tried here *)
(* are the ones written in the scripts and a few overrides of each.        *)

KValues == { 2, DEFAULT_K }
AlphaValues == { DEFAULT_ALPHA, 0, -DEFAULT_ALPHA }
WeightValues == { DEFAULT_WEIGHTS, << 2, 6, 2 >>, << 4, 4, 4 >> }
MaxZonesValues == { -1, 0, 1, 2, DEFAULT_MAX_ZONES }

DefaultConfig ==
    [ K |-> DEFAULT_K, alpha |-> DEFAULT_ALPHA, w |-> DEFAULT_WEIGHTS,
      SSI_THRESHOLD |-> DEFAULT_SSI_THRESHOLD,
      CRITICAL_PRESSURE |-> DEFAULT_CRITICAL_PRESSURE,
      MAX_ZONES |-> DEFAULT_MAX_ZONES ]

\* the settings section 7 of the spec calls a configuration error
BadSettings(c) ==
    { x \in { "alpha", "w", "MAX_ZONES" } :
        \/ (x = "alpha" /\ c.alpha <= 0)
        \/ (x = "w" /\ c.w[1] + c.w[2] + c.w[3] # WeightDen)
        \/ (x = "MAX_ZONES" /\ c.MAX_ZONES <= 0) }

\* The settings a script reads take the values above; the ones it never
\* reads stay at the default.  A setting that is a configuration error is
\* tried with alpha, the weights and MAX_ZONES otherwise as the scripts
\* write them.
ConfigsOf(s) ==
    { c \in
        { [DefaultConfig EXCEPT !.K = k, !.alpha = a, !.w = w, !.MAX_ZONES = m] :
            k \in (IF s \in {"tutor3", "tutor4", "tutor5", "export"}
                   THEN KValues ELSE {DEFAULT_K}),
            a \in (IF s \in {"tutor3", "tutor4", "tutor5", "export"}
                   THEN AlphaValues ELSE {DEFAULT_ALPHA}),
            w \in (IF s \in {"tutor4", "tutor5", "export"}
                   THEN WeightValues ELSE {DEFAULT_WEIGHTS}),
            m \in (IF s \in {"tutor5", "export"}
                   THEN MaxZonesValues ELSE {DEFAULT_MAX_ZONES}) } :
        \/ BadSettings(c) = {}
        \/ /\ Cardinality(BadSettings(c)) = 1
           /\ \A x \in { "alpha", "w", "MAX_ZONES" } \ BadSettings(c) :
                 c[x] = DefaultConfig[x] }

\* the stages of each script, in the order the file runs them
Stages(s) ==
    CASE s = "tutor1" -> << "normalize", "print" >>
      [] s = "tutor2" -> << "exposure", "print" >>
      [] s = "tutor3" -> << "access", "print" >>
      [] s = "tutor4" -> << "exposure", "access", "ssi", "print" >>
      [] s = "tutor5" -> << "exposure", "access", "ssi", "decision", "label",
                            "print" >>
      [] s = "export" -> << "exposure", "access", "ssi", "decision", "label",
                            "flag", "write" >>

\* the stage after st in script s, "done" after the last
After(s, st) ==
    LET i == CHOOSE j \in DOMAIN Stages(s) : Stages(s)[j] = st
    IN  IF i = Len(Stages(s)) THEN "done" ELSE Stages(s)[i + 1]

Init ==
    /\ script \in Scripts
    /\ cfg \in ConfigsOf(script)
    /\ nZones \in 0 .. MaxN
    /\ acts \in [0 .. nZones -> 0 .. MaxPerCell]
    /\ pc = Stages(script)[1]
    /\ err = "none"
    /\ activity_count = << >>
    /\ activity_score = << >>
    /\ exposure_score = << >>
    /\ access_raw = << >>
    /\ access_score = << >>
    /\ underserved_score = << >>
    /\ env_pressure = << >>
    /\ social_pressure = << >>
    /\ ops_pressure = << >>
    /\ ssi_score = << >>
    /\ candidates = {}
    /\ final = << >>
    /\ dominant_pressure = << >>
    /\ is_recommended = << >>
    /\ recommend_rank = << >>
    /\ out_file = "none"

----------------------------------------------------------------------------
(* Part 2: exposure. *)

\* sjoin(predicate="within") + groupby + merge(how="left") + fillna(0)
ActivityCount == [z \in Zones |-> acts[z]]

CountSeries(c) == [z \in DOMAIN c |-> Num(c[z], 1)]

\* tutor1.py: activity_score, normalised without the max == min guard
Normalize1 ==
    /\ pc = "normalize"
    /\ activity_count' = ActivityCount
    /\ activity_score' = UnguardedMinmax(CountSeries(ActivityCount))
    /\ pc' = After(script, "normalize")
    /\ UNCHANGED << script, cfg, nZones, acts, err, exposure_score,
                    access_raw, access_score, underserved_score,
                    env_pressure, social_pressure, ops_pressure, ssi_score,
                    candidates, final, dominant_pressure,
                    is_recommended, recommend_rank, out_file >>

Exposure ==
    /\ pc = "exposure"
    /\ activity_count' = ActivityCount
    /\ exposure_score' = RoundAll(minmax(CountSeries(ActivityCount)))
    /\ pc' = After(script, "exposure")
    /\ UNCHANGED << script, cfg, nZones, acts, err, activity_score,
                    access_raw, access_score, underserved_score,
                    env_pressure, social_pressure, ops_pressure, ssi_score,
                    candidates, final, dominant_pressure,
                    is_recommended, recommend_rank, out_file >>

----------------------------------------------------------------------------
(* Part 3: accessibility. *)

\* len(svc_coords): every activity point, inside a zone or not
NumActivities ==
    LET RECURSIVE Sum(_)
        Sum(c) == IF c < 0 THEN 0 ELSE acts[c] + Sum(c - 1)
    IN  Sum(nZones)

Copies(n, v) == [i \in 1 .. n |-> v]

\* the points at exactly m cells from the centroid of zone z
CountAt(z, m) ==
    IF m = 0 THEN acts[z]
    ELSE (IF z - m >= 0 THEN acts[z - m] ELSE 0)
       + (IF z + m <= nZones THEN acts[z + m] ELSE 0)

\* the distances from zone z to every point, ascending
RECURSIVE DistsFrom(_, _)
DistsFrom(z, m) ==
    IF m > nZones THEN << >>
    ELSE Copies(CountAt(z, m), m * CellSize) \o DistsFrom(z, m + 1)

\* np.sort(np.partition(d, k - 1)[:k]): the k smallest, ascending.  The
\* scripts reach the slice only with k <= len(d): np.partition raises
\* before it otherwise (AccessError below).
nearest_k_distances(z, k) ==
    LET d == DistsFrom(z, 0)
    IN  SubSeq(d, 1, IF k < Len(d) THEN k ELSE Len(d))

\* 1 / (1 + d / alpha) in IEEE arithmetic: x/0 is inf, 0/0 is NaN, and
\* numpy warns instead of raising
Decay(d, alpha) ==
    IF alpha = 0 THEN (IF d = 0 THEN NaN ELSE Num(0, 1))
    ELSE IF alpha + d = 0 THEN Inf
    ELSE Rat(alpha, alpha + d)

RECURSIVE SumDecay(_, _)
SumDecay(ds, alpha) ==
    IF ds = << >> THEN Num(0, 1)
    ELSE FAdd(Decay(Head(ds), alpha), SumDecay(Tail(ds), alpha))

AccessRaw == [z \in Zones |-> SumDecay(nearest_k_distances(z, cfg.K), cfg.alpha)]

\* 1 - access_score, on rounded values
Complement(x) == IF IsNum(x) THEN Num(SCALE - x.n, SCALE) ELSE x

\* the stage as it would run if too few points went unnoticed
AccessErrorEmptyOnly ==
    IF nZones = 0 THEN "AxisError"
    ELSE IF NumActivities = 0 THEN "IndexError"
    ELSE "none"

\* What stops the stage, if anything.  With no activity point svc_coords is
\* a 1-D empty array and coords[:, 0] raises IndexError; with fewer than K
\* np.partition raises ValueError; both inside the loop over the zones.
\* With no zone the loop is skipped, nearest_dists is a 1-D empty array and
\* np.sum(..., axis=1) raises AxisError.
AccessError ==
    IF nZones = 0 THEN "AxisError"
    ELSE IF NumActivities = 0 THEN "IndexError"
    ELSE IF NumActivities < cfg.K THEN "ValueError"
    ELSE "none"

Accessibility ==
    /\ pc = "access"
    /\ IF AccessError # "none"
       THEN /\ err' = AccessError
            /\ pc' = "failed"
            /\ UNCHANGED << access_raw, access_score, underserved_score >>
       ELSE /\ access_raw' = AccessRaw
            /\ access_score' = RoundAll(minmax(access_raw'))
            /\ underserved_score' =
                   [z \in Zones |-> Complement(access_score'[z])]
            /\ pc' = After(script, "access")
            /\ err' = err
    /\ UNCHANGED << script, cfg, nZones, acts, activity_count, activity_score,
                    exposure_score, env_pressure, social_pressure,
                    ops_pressure, ssi_score, candidates, final,
                    dominant_pressure, is_recommended, recommend_rank,
                    out_file >>

----------------------------------------------------------------------------
(* Part 4: the composite index. *)

\* (w_env*env + w_soc*social + w_ops*ops).round(6), on rounded pressures
Ssi(w, e, s, o) ==
    IF IsNum(e) /\ IsNum(s) /\ IsNum(o)
    THEN Num(RoundDiv(w[1] * e.n + w[2] * s.n + w[3] * o.n, WeightDen), SCALE)
    ELSE NaN

CompositeIndex ==
    /\ pc = "ssi"
    /\ env_pressure' = exposure_score
    /\ social_pressure' = underserved_score
    /\ ops_pressure' = exposure_score
    /\ ssi_score' = [z \in Zones |-> Ssi(cfg.w, exposure_score[z],
                                         underserved_score[z], exposure_score[z])]
    /\ pc' = After(script, "ssi")
    /\ UNCHANGED << script, cfg, nZones, acts, err, activity_count,
                    activity_score, exposure_score, access_raw, access_score,
                    underserved_score, candidates, final, dominant_pressure,
                    is_recommended, recommend_rank, out_file >>

----------------------------------------------------------------------------
(* Part 5: the decision layer. *)

StrictTier ==
    { z \in Zones :
        /\ RGe(ssi_score[z], cfg.SSI_THRESHOLD)
        /\ \/ RGe(env_pressure[z], cfg.CRITICAL_PRESSURE)
           \/ RGe(social_pressure[z], cfg.CRITICAL_PRESSURE) }

RelaxedTier == { z \in Zones : RGe(ssi_score[z], cfg.SSI_THRESHOLD) }

\* the cascade with "<=" for "<" in both tests
CascadeOffByOne(strict, relaxed, all, max_zones) ==
    LET c1 == IF Cardinality(strict) <= max_zones THEN relaxed ELSE strict
    IN  IF Cardinality(c1) <= max_zones THEN all ELSE c1

\* the cascade without its last step
CascadeNoFallback(strict, relaxed, all, max_zones) ==
    IF Cardinality(strict) < max_zones THEN relaxed ELSE strict

\* the two "if len(candidates) < MAX_ZONES" steps, in order
Cascade(strict, relaxed, all, max_zones) ==
    LET c1 == IF Cardinality(strict) < max_zones THEN relaxed ELSE strict
    IN  IF Cardinality(c1) < max_zones THEN all ELSE c1

\* the rows in any order at all
Unsorted(rows) ==
    { s \in [1 .. Cardinality(rows) -> rows] :
        \A i, j \in DOMAIN s : i # j => s[i] # s[j] }

\* sort_values("ssi_score", ascending=False): NaN rows last; the default
\* sort is not stable, so rows with equal ssi_score may come in any order
SortedDesc(rows) ==
    { s \in [1 .. Cardinality(rows) -> rows] :
        /\ \A i, j \in DOMAIN s : i # j => s[i] # s[j]
        /\ \A i, j \in DOMAIN s : i < j =>
              /\ ~RGt(ssi_score[s[j]], ssi_score[s[i]])
              /\ IsNaN(ssi_score[s[i]]) => IsNaN(ssi_score[s[j]]) }

\* DataFrame.head(n): the first n rows; all but the last -n when n < 0
HeadRows(s, n) ==
    IF n >= 0
    THEN SubSeq(s, 1, IF n < Len(s) THEN n ELSE Len(s))
    ELSE SubSeq(s, 1, IF Len(s) + n > 0 THEN Len(s) + n ELSE 0)

Decision ==
    /\ pc = "decision"
    /\ candidates' = Cascade(StrictTier, RelaxedTier, Zones, cfg.MAX_ZONES)
    /\ \E s \in SortedDesc(candidates') : final' = HeadRows(s, cfg.MAX_ZONES)
    /\ pc' = After(script, "decision")
    /\ UNCHANGED << script, cfg, nZones, acts, err, activity_count,
                    activity_score, exposure_score, access_raw, access_score,
                    underserved_score, env_pressure, social_pressure,
                    ops_pressure, ssi_score, dominant_pressure,
                    is_recommended, recommend_rank, out_file >>

Range(s) == { s[i] : i \in DOMAIN s }

\* the last key of maximum value instead of the first
DominantOfLastMax(e, s, o) ==
    LET Ge(x, y) == IsNum(x) /\ IsNum(y) /\ x.n >= y.n
    IN  IF Ge(s, e)
        THEN (IF Ge(o, s) THEN "OPS" ELSE "SOCIAL")
        ELSE (IF Ge(o, e) THEN "OPS" ELSE "ENV")

\* the keys taken in the order OPS, SOCIAL, ENV
DominantOfOpsFirst(e, s, o) ==
    IF RGt(s, o)
    THEN (IF RGt(e, s) THEN "ENV" ELSE "SOCIAL")
    ELSE (IF RGt(e, o) THEN "ENV" ELSE "OPS")

\* max(pressures, key=pressures.get): the first key, in the order ENV,
\* SOCIAL, OPS, that no later key strictly exceeds
DominantOf(e, s, o) ==
    IF RGt(s, e)
    THEN (IF RGt(o, s) THEN "OPS" ELSE "SOCIAL")
    ELSE (IF RGt(o, e) THEN "OPS" ELSE "ENV")

\* the rows that get the label: zones.apply in export_dss_geojson.py,
\* final.apply in tutor5.py
LabelledRows == IF script = "export" THEN Zones ELSE Range(final)

Label ==
    /\ pc = "label"
    /\ dominant_pressure' =
           [z \in LabelledRows |->
               DominantOf(env_pressure[z], social_pressure[z], ops_pressure[z])]
    /\ pc' = After(script, "label")
    /\ UNCHANGED << script, cfg, nZones, acts, err, activity_count,
                    activity_score, exposure_score, access_raw, access_score,
                    underserved_score, env_pressure, social_pressure,
                    ops_pressure, ssi_score, candidates, final,
                    is_recommended, recommend_rank, out_file >>

\* ranks counted from 0
RankOfZeroBased(z, f) ==
    IF z \in Range(f) THEN (CHOOSE i \in DOMAIN f : f[i] = z) - 1 ELSE 0

\* rank_map = {zid: i+1 for i, zid in enumerate(final["zone_id"])}
RankOf(z, f) ==
    IF z \in Range(f) THEN CHOOSE i \in DOMAIN f : f[i] = z ELSE 0

FlagRank ==
    /\ pc = "flag"
    /\ is_recommended' = [z \in Zones |-> IF z \in Range(final) THEN 1 ELSE 0]
    /\ recommend_rank' = [z \in Zones |-> RankOf(z, final)]
    /\ pc' = After(script, "flag")
    /\ UNCHANGED << script, cfg, nZones, acts, err, activity_count,
                    activity_score, exposure_score, access_raw, access_score,
                    underserved_score, env_pressure, social_pressure,
                    ops_pressure, ssi_score, candidates, final,
                    dominant_pressure, out_file >>

----------------------------------------------------------------------------
(* Output. *)

\* zones_out.to_file(OUT_GEOJSON, driver="GeoJSON")
WriteGeoJSON ==
    /\ pc = "write"
    /\ out_file' = "written"
    /\ pc' = After(script, "write")
    /\ UNCHANGED << script, cfg, nZones, acts, err, activity_count,
                    activity_score, exposure_score, access_raw, access_score,
                    underserved_score, env_pressure, social_pressure,
                    ops_pressure, ssi_score, candidates, final,
                    dominant_pressure, is_recommended, recommend_rank >>

\* the tutor scripts print their tables and write no file
PrintReport ==
    /\ pc = "print"
    /\ pc' = After(script, "print")
    /\ UNCHANGED << script, cfg, nZones, acts, err, activity_count,
                    activity_score, exposure_score, access_raw, access_score,
                    underserved_score, env_pressure, social_pressure,
                    ops_pressure, ssi_score, candidates, final,
                    dominant_pressure, is_recommended, recommend_rank,
                    out_file >>

Next ==
    \/ Normalize1
    \/ Exposure
    \/ Accessibility
    \/ CompositeIndex
    \/ Decision
    \/ Label
    \/ FlagRank
    \/ WriteGeoJSON
    \/ PrintReport

Spec == Init /\ [][Next]_vars

----------------------------------------------------------------------------
(* Vocabulary of the properties. *)

\* the decision layer has run (tutor5.py and export_dss_geojson.py only)
Decided ==
    /\ script \in { "tutor5", "export" }
    /\ pc \in { "label", "flag", "write", "print", "done" }

\* the strict rule and the relaxed rule, as section 4.4 of the spec words them
PassesThreshold(z) == IsNum(ssi_score[z]) /\ ssi_score[z].n >= cfg.SSI_THRESHOLD
IsCritical(p) == IsNum(p) /\ p.n >= cfg.CRITICAL_PRESSURE
PassesStrict(z) ==
    /\ PassesThreshold(z)
    /\ (IsCritical(env_pressure[z]) \/ IsCritical(social_pressure[z]))
NumStrict == Cardinality({ z \in Zones : PassesStrict(z) })
NumRelaxed == Cardinality({ z \in Zones : PassesThreshold(z) })

Min(a, b) == IF a < b THEN a ELSE b
WeightSum == cfg.w[1] + cfg.w[2] + cfg.w[3]

\* a configuration section 7 of the spec accepts
ValidConfig ==
    /\ WeightSum = WeightDen
    /\ cfg.alpha > 0
    /\ cfg.MAX_ZONES > 0

\* 1-based position of zone z in the recommendation list, 0 when absent
PositionIn(f, z) == IF \E i \in DOMAIN f : f[i] = z
                    THEN CHOOSE i \in DOMAIN f : f[i] = z ELSE 0

----------------------------------------------------------------------------
(* C1: the candidate set is the strict tier when that tier has at least    *)
(* MAX_ZONES zones, otherwise the relaxed tier when that one has at least  *)
(* MAX_ZONES zones, otherwise every zone; and whenever the strict tier has *)
(* at least MAX_ZONES zones every recommended zone passes the strict rule. *)
C1_CascadeOrder ==
    Decided =>
        /\ NumStrict >= cfg.MAX_ZONES =>
              /\ candidates = { z \in Zones : PassesStrict(z) }
              /\ \A i \in DOMAIN final : PassesStrict(final[i])
        /\ (NumStrict < cfg.MAX_ZONES /\ NumRelaxed >= cfg.MAX_ZONES) =>
              candidates = { z \in Zones : PassesThreshold(z) }
        /\ (NumStrict < cfg.MAX_ZONES /\ NumRelaxed < cfg.MAX_ZONES) =>
              candidates = Zones

\* the strict tier was used although other zones pass the threshold too
C1_Witness ==
    /\ Decided
    /\ ValidConfig
    /\ NumStrict >= cfg.MAX_ZONES
    /\ NumRelaxed > NumStrict
    /\ final # << >>

(* C2: the recommendation list has at most MAX_ZONES entries (MAX_ZONES a  *)
(* count, not negative), no entry has a larger ssi_score than an entry     *)
(* before it, recommend_rank of a listed zone is its 1-based position, and *)
(* every unlisted zone has is_recommended = 0 and recommend_rank = 0.      *)
C2_RankedList ==
    (script = "export" /\ pc \in { "write", "done" } /\ cfg.MAX_ZONES >= 0) =>
        /\ Len(final) <= cfg.MAX_ZONES
        /\ \A i, j \in DOMAIN final :
              i < j => ~RGt(ssi_score[final[j]], ssi_score[final[i]])
        /\ \A i \in DOMAIN final :
              /\ recommend_rank[final[i]] = i
              /\ is_recommended[final[i]] = 1
        /\ \A z \in Zones :
              (\A i \in DOMAIN final : final[i] # z) =>
                  (is_recommended[z] = 0 /\ recommend_rank[z] = 0)

\* a run that lists two zones of different score and leaves one out
C2_Witness ==
    /\ script = "export" /\ pc = "done"
    /\ ValidConfig
    /\ Len(final) = 2 /\ nZones > 2
    /\ RGt(ssi_score[final[1]], ssi_score[final[2]])
    /\ recommend_rank[final[2]] = 2

(* C3: for MAX_ZONES > 0 the number of recommended zones is exactly        *)
(* min(MAX_ZONES, number of zones); when fewer than MAX_ZONES zones pass   *)
(* either rule every zone is a candidate.                                   *)
C3_ExactCount ==
    (Decided /\ cfg.MAX_ZONES > 0) =>
        /\ Len(final) = Min(cfg.MAX_ZONES, nZones)
        /\ (NumStrict < cfg.MAX_ZONES /\ NumRelaxed < cfg.MAX_ZONES) =>
              candidates = Zones

\* the fallback tier was needed: some zone passes the strict rule, fewer
\* than MAX_ZONES pass the threshold, and the list is still full
C3_Witness ==
    /\ Decided
    /\ ValidConfig
    /\ cfg.MAX_ZONES > 1
    /\ NumStrict >= 1
    /\ NumRelaxed < cfg.MAX_ZONES
    /\ nZones > NumRelaxed
    /\ Len(final) = Min(cfg.MAX_ZONES, nZones)

(* C4: wherever a script normalises a per-zone metric to 0..1, zones that  *)
(* all share one raw value all get the score 0, never NaN.                 *)
C4_DegenerateIsZero ==
    /\ (script = "tutor1" /\ pc \in { "print", "done" }) =>
          ((\A y, z \in Zones : activity_count[y] = activity_count[z]) =>
              \A z \in Zones : activity_score[z] = Num(0, 1))
    /\ (script # "tutor1" /\ DOMAIN exposure_score = Zones) =>
          ((\A y, z \in Zones : activity_count[y] = activity_count[z]) =>
              \A z \in Zones : exposure_score[z] = Num(0, SCALE))
    /\ (DOMAIN access_score = Zones) =>
          ((\A y, z \in Zones : FEq(access_raw[y], access_raw[z])) =>
              \A z \in Zones : access_score[z] = Num(0, SCALE))

(* C5: with weights that sum to 1.0 (and the decay scale alpha positive),  *)
(* every exposure_score, access_score, underserved_score and ssi_score the *)
(* run has computed is a number in [0,1].                                   *)
In01(x) == IsNum(x) /\ 0 <= x.n /\ x.n <= x.d
C5_ScoresInUnitInterval ==
    (WeightSum = WeightDen /\ cfg.alpha > 0) =>
        /\ \A z \in DOMAIN exposure_score : In01(exposure_score[z])
        /\ \A z \in DOMAIN access_score : In01(access_score[z])
        /\ \A z \in DOMAIN underserved_score : In01(underserved_score[z])
        /\ \A z \in DOMAIN ssi_score : In01(ssi_score[z])

\* a finished run whose scores are not all at the ends of the interval
C5_Witness ==
    /\ pc = "done" /\ script = "export"
    /\ ValidConfig
    /\ \E z \in Zones : 0 < ssi_score[z].n /\ ssi_score[z].n < SCALE
    /\ \E z \in Zones : 0 < access_score[z].n /\ access_score[z].n < SCALE
    /\ \E z \in Zones : 0 < exposure_score[z].n /\ exposure_score[z].n < SCALE

(* C6, as the claim words it: every zone of the run, recommended or not,   *)
(* carries a dominant_pressure label once the labelling stage has run.     *)
Labelled ==
    /\ script \in { "tutor5", "export" }
    /\ pc \in { "flag", "write", "print", "done" }

C6_EveryZoneLabelled ==
    (Labelled /\ ValidConfig) => DOMAIN dominant_pressure = Zones

\* the pressure a label names
PressureOf(l, z) ==
    CASE l = "ENV" -> env_pressure[z]
      [] l = "SOCIAL" -> social_pressure[z]
      [] l = "OPS" -> ops_pressure[z]

\* place of a label in the priority order ENV, SOCIAL, OPS
Priority(l) == CASE l = "ENV" -> 1 [] l = "SOCIAL" -> 2 [] l = "OPS" -> 3

(* C6, amended: export_dss_geojson.py labels every zone of the run and     *)
(* tutor5.py labels exactly the recommended zones; each label is one of    *)
(* ENV, SOCIAL, OPS, no pressure of the zone exceeds the one it names, and *)
(* every label earlier in the order ENV, SOCIAL, OPS names a strictly      *)
(* smaller pressure.                                                       *)
C6_DominantLabel ==
    Labelled =>
        /\ script = "export" => DOMAIN dominant_pressure = Zones
        /\ script = "tutor5" =>
              DOMAIN dominant_pressure = { final[i] : i \in DOMAIN final }
        /\ \A z \in DOMAIN dominant_pressure :
              /\ dominant_pressure[z] \in { "ENV", "SOCIAL", "OPS" }
              /\ \A l \in { "ENV", "SOCIAL", "OPS" } :
                    /\ ~RGt(PressureOf(l, z),
                            PressureOf(dominant_pressure[z], z))
                    /\ Priority(l) < Priority(dominant_pressure[z]) =>
                          RGt(PressureOf(dominant_pressure[z], z),
                              PressureOf(l, z))

\* export_dss_geojson.py labelled a zone it did not recommend, and some
\* zone has ENV and SOCIAL tied
C6_Witness ==
    /\ script = "export" /\ pc = "done"
    /\ ValidConfig
    /\ \E z \in Zones : is_recommended[z] = 0 /\ dominant_pressure[z] = "SOCIAL"
    /\ \E z \in Zones : /\ env_pressure[z] = social_pressure[z]
                        /\ dominant_pressure[z] = "ENV"

(* C7: with fewer than K activity points the run stops in the              *)
(* accessibility stage: access_raw and access_score are never computed,    *)
(* no later stage runs and no file is written.                             *)
RunsAccessibility == script \in { "tutor3", "tutor4", "tutor5", "export" }

C7_TooFewPointsFails ==
    (RunsAccessibility /\ NumActivities < cfg.K) =>
        /\ pc \in { "exposure", "access", "failed" }
        /\ pc = "failed" => err # "none"
        /\ access_raw = << >> /\ access_score = << >>
        /\ underserved_score = << >>
        /\ out_file = "none"

\* a run with zones and some points, but fewer than K, has stopped
C7_Witness ==
    /\ script = "export"
    /\ ValidConfig
    /\ nZones > 0
    /\ 0 < NumActivities /\ NumActivities < cfg.K
    /\ pc = "failed" /\ err = "ValueError"

(* C8: weights that do not sum to 1.0, alpha <= 0 or MAX_ZONES <= 0 abort  *)
(* the run before any ssi_score, recommendation list or file exists.       *)
Misconfigured ==
    /\ script \in { "tutor4", "tutor5", "export" }
    /\ \/ WeightSum # WeightDen
       \/ cfg.alpha <= 0
       \/ cfg.MAX_ZONES <= 0

C8_MisconfigurationAborts ==
    Misconfigured =>
        /\ ssi_score = << >>
        /\ final = << >>
        /\ out_file = "none"
        /\ pc # "done"

(* C9: with no zone at all export_dss_geojson.py raises no error.          *)
C9_EmptyRunsClean ==
    (script = "export" /\ nZones = 0 /\ ValidConfig) =>
        (pc # "failed" /\ err = "none")

(* C10: when fewer than MAX_ZONES zones pass the SSI threshold, every zone *)
(* that passes it is recommended, and stands in the list before every      *)
(* recommended zone whose ssi_score is below the threshold.                *)
C10_FallbackKeepsQualified ==
    (Decided /\ NumRelaxed < cfg.MAX_ZONES) =>
        \A z \in Zones :
            PassesThreshold(z) =>
                /\ PositionIn(final, z) > 0
                /\ \A i \in DOMAIN final :
                      (IsNum(ssi_score[final[i]])
                         /\ ssi_score[final[i]].n < cfg.SSI_THRESHOLD) =>
                          PositionIn(final, z) < i

\* the fallback tier ran with a strict zone in second place and a zone
\* below the threshold behind it
C10_Witness ==
    /\ Decided
    /\ ValidConfig
    /\ NumRelaxed < cfg.MAX_ZONES
    /\ Len(final) >= 3
    /\ PassesStrict(final[2])
    /\ ~PassesThreshold(final[3])

(* C11: env_pressure and ops_pressure are both the exposure_score and     *)
(* social_pressure is the underserved_score, so the two are equal in every *)
(* zone and no zone is labelled OPS: where both scores are numbers the     *)
(* label is ENV when exposure_score >= underserved_score and SOCIAL        *)
(* otherwise.                                                              *)
C11_NeverOps ==
    /\ \A z \in DOMAIN env_pressure :
          /\ env_pressure[z] = exposure_score[z]
          /\ ops_pressure[z] = exposure_score[z]
          /\ social_pressure[z] = underserved_score[z]
          /\ env_pressure[z] = ops_pressure[z]
    /\ \A z \in DOMAIN dominant_pressure :
          /\ dominant_pressure[z] # "OPS"
          /\ (IsNum(exposure_score[z]) /\ IsNum(underserved_score[z])) =>
                dominant_pressure[z] =
                    IF exposure_score[z].n >= underserved_score[z].n
                    THEN "ENV" ELSE "SOCIAL"

\* a finished run that labelled one zone ENV on a strictly larger exposure
\* and another zone SOCIAL
C11_Witness ==
    /\ script \in { "tutor5", "export" } /\ pc = "done"
    /\ ValidConfig
    /\ \E z \in DOMAIN dominant_pressure :
          /\ dominant_pressure[z] = "ENV"
          /\ exposure_score[z].n > underserved_score[z].n
    /\ \E z \in DOMAIN dominant_pressure : dominant_pressure[z] = "SOCIAL"

====
